---- MODULE Spec2Model ----
(***************************************************************************)
(* A model of the market-intelligence pipeline: the search agent           *)
(* (search-agent/agent.py), the document pipeline                          *)
(* (doc-process/scripts/process-doc.py) and the tabular converter          *)
(* (data-process/data-to-db.py).  Each component has its own               *)
(* specification (SpecAgent, SpecSql, SpecDoc, SpecConv, SpecUpload for the*)
(* chunk form and doc-to-lance.py); the variables of the other components  *)
(* are parked at their initial value.                                      *)
(***************************************************************************)
EXTENDS Integers, Sequences, FiniteSets, TLC

VARIABLES
    \* ---- search agent: process_queries / process_single_query / graph
    queries,         \* the list handed to process_queries
    single,          \* TRUE when entered through process_single_query
    apc,             \* position in process_queries: "loop", "stream", "returned";
                     \* in a run of the exported app: "invoke", "app_stream",
                     \* "app_returned"
    qidx,            \* 1-based index of the query being processed
    node,            \* next node of the graph: "start", "chatbot", "tools", "end"
    messages,        \* MessagesState["messages"] of the current run
    llm_input,       \* the message list last handed to llm_with_tools.invoke
    final_response,  \* process_queries' local final_response
    results,         \* process_queries' local results
    ret,             \* value returned by process_single_query
    trace,           \* history: the nodes executed in the current run
    lastAI           \* history: per stored result, the last AI message of its run

agentVars == <<queries, single, apc, qidx, node, messages, llm_input,
               final_response, results, ret, trace, lastAI>>

VARIABLES
    \* ---- search agent: the sql_query tool
    sqlpc,          \* position in sql_query: "call", "connect", "execute", "returned"
    sql,            \* the argument, a sequence of characters
    driver,         \* history: the sqlite3 driver calls made, in order
    sqlret,         \* the value sql_query returned
    dbDirExists,    \* the directory of SQLITE_DB_PATH exists
    dbFileExists,   \* the file SQLITE_DB_PATH exists
    dbTables,       \* the tables of that database: name -> rows
    dbFile0,        \* history: the file SQLITE_DB_PATH existed before the call
    sqlFault,       \* history: the exception raised inside sql_query
    \* ---- search agent: the hybrid_search tool
    hspc,           \* position in hybrid_search: "call", "search", "format", "returned"
    hsquery,        \* the argument query
    hsret,          \* the value hybrid_search returned
    hsFault         \* history: the failure raised inside hybrid_search

hsVars == <<hspc, hsquery, hsret, hsFault>>
sqlVars == <<sqlpc, sql, driver, sqlret, dbDirExists, dbFileExists, dbTables,
             dbFile0, sqlFault, hsVars>>

VARIABLES
    \* ---- document pipeline: process_documents / process_single_document
    max_workers,    \* process_documents' parameter
    cpc,            \* coordinator: "setup", "collect", "summary", "done"
    files,          \* unprocessed_files, the documents discovered
    unprocessed,    \* files present in docs/unprocessed
    processed,      \* files present in docs/processed
    rawForm,        \* results/raw-form: stem -> the document whose result it holds
    chunkForm,      \* results/chunk-form: stem -> the document whose chunks it holds
    tstate,         \* per document: the position of its task
    failedAt,       \* history: per document, the step that raised
    consumed,       \* futures the coordinator has taken from as_completed
    success_count,  \* process_documents' local success_count
    summary         \* the final tally printed

docVars == <<max_workers, cpc, files, unprocessed, processed, rawForm, chunkForm,
             tstate, failedAt, consumed, success_count, summary>>

VARIABLES
    \* ---- tabular converter: main / process_file / convert_*_to_db
    cvpc,           \* main: "start", "check", "discover", "loop", "done"
    dirs,           \* which of data, data/unprocessed, data/processed, databases exist
    intake,         \* data/unprocessed: file -> content
    archive,        \* data/processed: file -> content
    dbs,            \* databases: stem -> (table name -> frame)
    cfiles,         \* main's local files
    cidx,           \* 1-based index into files
    successful,     \* main's local successful
    failed,         \* main's local failed
    fileOutcome,        \* history: this run's fileOutcome of process_file per file
    attempts,       \* history: this run's calls of process_file per file
    lastConv,       \* history: the file and content process_file converted last
    converted,      \* history: every (file, content) converted so far
    runs            \* runs of main started so far

convVars == <<cvpc, dirs, intake, archive, dbs, cfiles, cidx, successful, failed,
              fileOutcome, attempts, lastConv, converted, runs>>

VARIABLES
    \* ---- chunk form and uploader: create_chunk_form / upload_chunks_to_lancedb
    raw,            \* the raw parse result of the document being processed
    created,        \* what create_chunk_form returned ("not run": NotRun)
    chunkDirExists, \* results/chunk-form exists
    jsonFiles,      \* results/chunk-form/*.json in glob order: each a chunk list
    upc,            \* uploader: "idle", "create", "add", "verify", "index", "wait",
                    \*           "summary", "done", "done_empty", "raised"
    loaded,         \* upload_chunks_to_lancedb's local chunks
    table,          \* the documents table of the store
    table0,         \* history: the documents table before the uploader ran
    oplog,          \* history: the store operations made and the report, in order
    upError         \* history: why the uploader raised

upVars == <<raw, created, chunkDirExists, jsonFiles, upc, loaded, table, table0,
            oplog, upError>>

vars == <<agentVars, sqlVars, docVars, convVars, upVars>>
notAgentVars == <<sqlVars, docVars, convVars, upVars>>
notSqlVars == <<agentVars, docVars, convVars, upVars>>
notDocVars == <<agentVars, sqlVars, convVars, upVars>>
notConvVars == <<agentVars, sqlVars, docVars, upVars>>
notUpVars == <<agentVars, sqlVars, docVars, convVars>>

\* ------------------------------------------------------------------------
\* Bounds
\* ------------------------------------------------------------------------
MaxQueries == 2      \* longest query list
MaxTurns == 2        \* chatbot steps of one run that may still request tools
MaxCalls == 1        \* tool calls one LLM output may request
MaxWorkers == 2      \* largest max_workers tried
MaxRuns == 2         \* runs of the converter's main
MaxChunks == 2       \* chunks of a raw result built from the chunk shapes
MaxPad == 1          \* whitespace characters padding a statement on each side

\* ------------------------------------------------------------------------
\* Search agent
\* ------------------------------------------------------------------------
None == "None"
QueryTexts == {"hello", "coal share 2022"}
Contents == {"answer A", "answer B"}
ToolNames == {"hybrid_search", "sql_query"}
SYSTEM_PROMPT == "SYSTEM_PROMPT"
NO_RESPONSE == "No response generated"

HumanMessage(c) == [type |-> "human", content |-> c]
SystemMessage(c) == [type |-> "system", content |-> c]
\* langchain's AIMessage declares tool_calls as a field of every instance
\* (an empty list when the model requested no tool).
AIMessage(c, tcs) == [type |-> "ai", content |-> c, tool_calls |-> tcs]
ToolMessage(c, n) == [type |-> "tool", content |-> c, name |-> n]

HasAttr(m, a) == a \in DOMAIN m

ToolCallSeqs == UNION {[1..n -> ToolNames] : n \in 0..MaxCalls}

\* chatbot(): the system prompt is prepended unless messages[0] is a system message
ChatbotInput(msgs) ==
    IF Len(msgs) > 0 /\ msgs[1].type = "system"
    THEN msgs
    ELSE <<SystemMessage(SYSTEM_PROMPT)>> \o msgs

\* tools_condition, the conditional edge out of chatbot
ToolsConditionOff(msgs) ==
    LET last == msgs[Len(msgs)]
    IN IF HasAttr(last, "tool_calls") /\ Len(last.tool_calls) > 1
       THEN "tools" ELSE "end"

ToolsCondition(msgs) ==
    LET last == msgs[Len(msgs)]
    IN IF HasAttr(last, "tool_calls") /\ Len(last.tool_calls) > 0
       THEN "tools" ELSE "end"

\* process_queries: "Capture final response"
CaptureFinal(last, final) ==
    IF last.type = "ai" /\ ~HasAttr(last, "tool_calls")
    THEN last.content
    ELSE final

\* process_queries: "Store result"
ResultEntry(q, final) ==
    [query |-> q, response |-> final, success |-> (final # None)]

\* process_single_query's return expression
ProcessSingleQueryReturn(res) ==
    IF Len(res) > 0 THEN res[1].response ELSE NO_RESPONSE

\* ToolNode: one ToolMessage per requested call, in order
ToolNodeMessages(tcs) ==
    [i \in 1..Len(tcs) |-> ToolMessage("tool output", tcs[i])]

\* the message lists a caller of the exported app supplies
CallerMessages ==
    { <<>>,
      <<HumanMessage("hello")>>,
      <<SystemMessage(SYSTEM_PROMPT), HumanMessage("hello")>>,
      <<SystemMessage("You are a pirate."), HumanMessage("hello")>>,
      <<HumanMessage("hello"), SystemMessage(SYSTEM_PROMPT)>> }

\* entered through process_queries / process_single_query, or through the
\* exported app with the caller's message list
AgentInit ==
    /\ \/ /\ apc = "loop"
          /\ single \in BOOLEAN
          /\ queries \in IF single
                         THEN [1..1 -> QueryTexts]
                         ELSE UNION {[1..n -> QueryTexts] : n \in 0..MaxQueries}
          /\ messages = <<>>
       \/ /\ apc = "invoke"
          /\ single = FALSE
          /\ queries = <<>>
          /\ messages \in CallerMessages
    /\ qidx = 1
    /\ node = "start"
    /\ llm_input = <<>>
    /\ final_response = None
    /\ results = <<>>
    /\ ret = None
    /\ trace = <<>>
    /\ lastAI = <<>>

AgentParked ==
    /\ single = FALSE
    /\ queries = <<>>
    /\ apc = "parked"
    /\ qidx = 1
    /\ node = "start"
    /\ messages = <<>>
    /\ llm_input = <<>>
    /\ final_response = None
    /\ results = <<>>
    /\ ret = None
    /\ trace = <<>>
    /\ lastAI = <<>>

\* for idx, query in enumerate(queries, 1): graph.stream({"messages": [HumanMessage]})
StartQuery ==
    /\ UNCHANGED notAgentVars
    /\ apc = "loop"
    /\ qidx <= Len(queries)
    /\ final_response' = None
    /\ messages' = <<HumanMessage(queries[qidx])>>
    /\ node' = "chatbot"
    /\ trace' = <<>>
    /\ apc' = "stream"
    /\ UNCHANGED <<queries, single, qidx, llm_input, results, ret, lastAI>>

\* app = graph: a caller invokes the compiled graph with its message list
StartInvoke ==
    /\ UNCHANGED notAgentVars
    /\ apc = "invoke"
    /\ apc' = "app_stream"
    /\ node' = "chatbot"
    /\ UNCHANGED <<queries, single, qidx, messages, llm_input, final_response,
                   results, ret, trace, lastAI>>

\* the chatbot node, the event it streams and the conditional edge
ChatbotNode ==
    /\ UNCHANGED notAgentVars
    /\ apc \in {"stream", "app_stream"}
    /\ node = "chatbot"
    /\ \E c \in Contents, tcs \in ToolCallSeqs :
          /\ Len(tcs) > 0 => Len(trace) < 2 * MaxTurns - 1
          /\ LET response == AIMessage(c, tcs)
                 msgs == Append(messages, response)
             IN /\ llm_input' = ChatbotInput(messages)
                /\ messages' = msgs
                /\ final_response' = CaptureFinal(response, final_response)
                /\ node' = ToolsCondition(msgs)
                /\ trace' = Append(trace, [node |-> "chatbot", calls |-> Len(tcs)])
    /\ UNCHANGED <<queries, single, apc, qidx, results, ret, lastAI>>

\* the tools node, the event it streams and the edge back to chatbot
ToolsNode ==
    /\ UNCHANGED notAgentVars
    /\ apc \in {"stream", "app_stream"}
    /\ node = "tools"
    /\ LET out == ToolNodeMessages(messages[Len(messages)].tool_calls)
       IN /\ messages' = messages \o out
          /\ final_response' =
                IF Len(out) > 0
                THEN CaptureFinal(out[Len(out)], final_response)
                ELSE final_response
    /\ node' = "chatbot"
    /\ trace' = Append(trace, [node |-> "tools", calls |-> 0])
    /\ UNCHANGED <<queries, single, apc, qidx, llm_input, results, ret, lastAI>>

\* the stream is exhausted: results.append({...})
StoreResult ==
    /\ UNCHANGED notAgentVars
    /\ apc = "stream"
    /\ node = "end"
    /\ results' = Append(results, ResultEntry(queries[qidx], final_response))
    /\ lastAI' = Append(lastAI, messages[Len(messages)])
    /\ qidx' = qidx + 1
    /\ apc' = "loop"
    /\ UNCHANGED <<queries, single, node, messages, llm_input, final_response,
                   ret, trace>>

\* return results (and, in process_single_query, the return expression)
ReturnResults ==
    /\ UNCHANGED notAgentVars
    /\ apc = "loop"
    /\ qidx > Len(queries)
    /\ apc' = "returned"
    /\ ret' = IF single THEN ProcessSingleQueryReturn(results) ELSE None
    /\ UNCHANGED <<queries, single, qidx, node, messages, llm_input,
                   final_response, results, trace, lastAI>>

\* the graph of an app run reached END: the state is handed to the caller
AppReturn ==
    /\ UNCHANGED notAgentVars
    /\ apc = "app_stream"
    /\ node = "end"
    /\ apc' = "app_returned"
    /\ UNCHANGED <<queries, single, qidx, node, messages, llm_input,
                   final_response, results, ret, trace, lastAI>>

AgentNext ==
    \/ StartQuery
    \/ StartInvoke
    \/ AppReturn
    \/ ChatbotNode
    \/ ToolsNode
    \/ StoreResult
    \/ ReturnResults

\* ------------------------------------------------------------------------
\* Search agent: the sql_query tool
\* ------------------------------------------------------------------------
\* A character is a one-character string; "long_s" stands for U+017F, whose
\* str.upper() is "S".
Whitespace == {" ", "\n", "\t"}
UpperMap == [s |-> "S", e |-> "E", l |-> "L", c |-> "C", t |-> "T", d |-> "D",
             r |-> "R", o |-> "O", p |-> "P", w |-> "W", i |-> "I", h |-> "H",
             long_s |-> "S"]
UpperChar(ch) == IF ch \in DOMAIN UpperMap THEN UpperMap[ch] ELSE ch

\* str.upper()
Upper(str) == [i \in 1..Len(str) |-> UpperChar(str[i])]

\* str.strip()
StripNone(str) == str

Strip(str) ==
    LET keep == {i \in 1..Len(str) : str[i] \notin Whitespace}
    IN IF keep = {} THEN <<>>
       ELSE LET lo == CHOOSE i \in keep : \A j \in keep : i <= j
                hi == CHOOSE i \in keep : \A j \in keep : j <= i
            IN SubSeq(str, lo, hi)

\* str.startswith()
StartsWith(str, prefix) ==
    /\ Len(str) >= Len(prefix)
    /\ SubSeq(str, 1, Len(prefix)) = prefix

SELECT == <<"S", "E", "L", "E", "C", "T">>

\* sql_query: "Security: Only allow SELECT queries"
SqlGate(str) == StartsWith(Upper(Strip(str)), SELECT)

REFUSAL == "Error: Only SELECT queries are allowed. Please provide a SELECT query."

\* The statements tried: padding, a leading word, a tail, padding.
Pads == UNION {[1..n -> Whitespace] : n \in 0..MaxPad}
Words == { <<>>,
           <<"s", "e", "l", "e", "c", "t">>,
           <<"S", "E", "L", "E", "C", "T">>,
           <<"S", "e", "L", "e", "c", "T">>,
           <<"long_s", "e", "l", "e", "c", "t">>,
           <<"s", "e", "l", "e", "c">>,
           <<"D", "R", "O", "P">>,
           <<"w", "i", "t", "h">>,
           <<"(", "s", "e", "l", "e", "c", "t">>,
           <<"-", "-", "\n", "s", "e", "l", "e", "c", "t">> }
Tails == { <<>>,
           <<" ", "1">>,
           <<" ", "s", "e", "l", "e", "c", "t", " ", "1">>,
           <<";", "d", "r", "o", "p">> }
SqlInputs == {a \o w \o t \o b : a \in Pads, w \in Words, t \in Tails, b \in Pads}

InitialTables == [data |-> <<1, 2>>]

\* the except clauses of sql_query: what the caller gets for an exception
SqlCatchSqliteOnly(exc, q) ==
    IF exc = "sqlite3.Error"
    THEN [kind |-> "sql_error", query |-> q]
    ELSE [kind |-> "raised"]

SqlCatch(exc, q) ==
    IF exc = "sqlite3.Error"
    THEN [kind |-> "sql_error", query |-> q]
    ELSE [kind |-> "error"]

\* the except clause of hybrid_search
HsCatch(exc) == [kind |-> "search_error"]

HsQueries == {"", "emissions"}

SqlInit ==
    /\ sqlpc = "call"
    /\ sql \in SqlInputs
    /\ driver = <<>>
    /\ sqlret = None
    /\ dbDirExists \in BOOLEAN
    /\ dbFileExists \in IF dbDirExists THEN BOOLEAN ELSE {FALSE}
    /\ dbTables = IF dbFileExists THEN InitialTables ELSE <<>>
    /\ dbFile0 = dbFileExists
    /\ sqlFault = "none"
    /\ hspc = "call"
    /\ hsquery \in HsQueries
    /\ hsret = None
    /\ hsFault = "none"

SqlParked ==
    /\ sqlpc = "parked"
    /\ sql = <<>>
    /\ driver = <<>>
    /\ sqlret = None
    /\ dbDirExists = FALSE
    /\ dbFileExists = FALSE
    /\ dbTables = <<>>
    /\ dbFile0 = FALSE
    /\ sqlFault = "none"
    /\ hspc = "parked"
    /\ hsquery = ""
    /\ hsret = None
    /\ hsFault = "none"

\* the gate: a rejected statement returns the refusal at once
SqlGateStep ==
    /\ UNCHANGED notSqlVars
    /\ sqlpc = "call"
    /\ IF SqlGate(sql)
       THEN /\ sqlpc' = "connect"
            /\ sqlret' = sqlret
       ELSE /\ sqlpc' = "returned"
            /\ sqlret' = [kind |-> "refusal", text |-> REFUSAL]
    /\ UNCHANGED <<sql, driver, dbDirExists, dbFileExists, dbTables, dbFile0,
                   sqlFault, hsVars>>

\* sqlite3.connect(SQLITE_DB_PATH): creates an empty database file when the
\* file is absent, and raises sqlite3.OperationalError when its directory is
\* absent (caught: "SQL Error: ... Query attempted: ...").
SqlConnect ==
    /\ UNCHANGED notSqlVars
    /\ sqlpc = "connect"
    /\ driver' = Append(driver, "connect")
    /\ IF dbDirExists
       THEN /\ sqlpc' = "execute"
            /\ dbFileExists' = TRUE
            /\ sqlret' = sqlret
            /\ sqlFault' = sqlFault
       ELSE /\ sqlpc' = "returned"
            /\ dbFileExists' = dbFileExists
            /\ sqlret' = SqlCatch("sqlite3.Error", sql)
            /\ sqlFault' = "sqlite3.Error"
    /\ UNCHANGED <<sql, dbDirExists, dbTables, dbFile0, hsVars>>

\* cursor.execute(sql), fetchall, formatting; the outcome is the database's
SqlExecute ==
    /\ UNCHANGED notSqlVars
    /\ sqlpc = "execute"
    /\ driver' = Append(driver, "execute")
    /\ sqlpc' = "returned"
    /\ \E outcome \in {"rows", "no_rows", "sqlite3.Error", "Exception"} :
          /\ sqlret' = CASE outcome = "rows" -> [kind |-> "results", query |-> sql]
                         [] outcome = "no_rows" -> [kind |-> "no_results"]
                         [] OTHER -> SqlCatch(outcome, sql)
          /\ sqlFault' = IF outcome \in {"rows", "no_rows"} THEN "none" ELSE outcome
    /\ UNCHANGED <<sql, dbDirExists, dbFileExists, dbTables, dbFile0, hsVars>>

\* hybrid_search: db.open_table("documents"); a missing table raises
HsOpenTable ==
    /\ UNCHANGED notSqlVars
    /\ hspc = "call"
    /\ \/ hspc' = "search" /\ UNCHANGED <<hsret, hsFault>>
       \/ /\ hspc' = "returned"
          /\ hsret' = HsCatch("missing table")
          /\ hsFault' = "missing table"
    /\ UNCHANGED <<hsquery, sqlpc, sql, driver, sqlret, dbDirExists, dbFileExists,
                   dbTables, dbFile0, sqlFault>>

\* hybrid_search: table.search(...).limit(limit).to_pandas() and the test of
\* results.empty; the embedding call or the store may raise
HsSearch ==
    /\ UNCHANGED notSqlVars
    /\ hspc = "search"
    /\ \/ hspc' = "format" /\ UNCHANGED <<hsret, hsFault>>
       \/ /\ hspc' = "returned"
          /\ hsret' = [kind |-> "no_documents"]
          /\ UNCHANGED hsFault
       \/ /\ hspc' = "returned"
          /\ hsret' = HsCatch("search failure")
          /\ hsFault' = "search failure"
    /\ UNCHANGED <<hsquery, sqlpc, sql, driver, sqlret, dbDirExists, dbFileExists,
                   dbTables, dbFile0, sqlFault>>

\* hybrid_search: the formatting loop and the join; a row lacking a column or
\* holding a value the format cannot take raises
HsFormat ==
    /\ UNCHANGED notSqlVars
    /\ hspc = "format"
    /\ hspc' = "returned"
    /\ \/ hsret' = [kind |-> "documents"] /\ UNCHANGED hsFault
       \/ /\ hsret' = HsCatch("format failure")
          /\ hsFault' = "format failure"
    /\ UNCHANGED <<hsquery, sqlpc, sql, driver, sqlret, dbDirExists, dbFileExists,
                   dbTables, dbFile0, sqlFault>>

SqlNext ==
    \/ SqlGateStep
    \/ SqlConnect
    \/ SqlExecute
    \/ HsOpenTable
    \/ HsSearch
    \/ HsFormat

\* ------------------------------------------------------------------------
\* Document pipeline: process_documents / process_single_document
\* ------------------------------------------------------------------------
File(stem, ext) == [stem |-> stem, ext |-> ext]
NoFile == File("", "")
DocUniverse == { File("report", ".pdf"), File("report", ".docx"),
                 File("memo", ".PDF"), File("notes", ".txt") }
DocStems == {f.stem : f \in DocUniverse}

\* str.lower() of a suffix
LowerExt(ext) == IF ext = ".PDF" THEN ".pdf" ELSE IF ext = ".DOCX" THEN ".docx" ELSE ext

\* f.suffix.lower() in supported_extensions
Supported(f) == LowerExt(f.ext) \in {".pdf", ".docx"}

\* raw_output_file / chunk_output_file are named after file_path.stem
OutputKey(f) == f.stem

Terminal == {"true", "false", "raised"}
Running(ts) == {f \in DOMAIN ts : ts[f] \in {"started", "uploaded", "parsed",
                                            "raw_saved", "chunk_saved", "moved"}}

\* the coordinator's handling of one completed future
CountResultAny(count, outcome) ==
    IF outcome \in {"true", "false"} THEN count + 1 ELSE count

CountResult(count, outcome) ==
    IF outcome = "true" THEN count + 1 ELSE count

DocInit ==
    /\ max_workers \in 1..MaxWorkers
    /\ cpc = "setup"
    /\ files = {}
    /\ unprocessed \in SUBSET DocUniverse
    /\ processed = {}
    /\ rawForm = [k \in DocStems |-> NoFile]
    /\ chunkForm = [k \in DocStems |-> NoFile]
    /\ tstate = [f \in DocUniverse |-> "none"]
    /\ failedAt = [f \in DocUniverse |-> "none"]
    /\ consumed = {}
    /\ success_count = 0
    /\ summary = [succeeded |-> 0, failed |-> 0]

DocParked ==
    /\ max_workers = 1
    /\ cpc = "parked"
    /\ files = {}
    /\ unprocessed = {}
    /\ processed = {}
    /\ rawForm = [k \in DocStems |-> NoFile]
    /\ chunkForm = [k \in DocStems |-> NoFile]
    /\ tstate = [f \in DocUniverse |-> "none"]
    /\ failedAt = [f \in DocUniverse |-> "none"]
    /\ consumed = {}
    /\ success_count = 0
    /\ summary = [succeeded |-> 0, failed |-> 0]

\* discovery, the early return when nothing is found, and the submission of
\* one task per discovered file
Discover ==
    /\ UNCHANGED notDocVars
    /\ cpc = "setup"
    /\ LET found == {f \in unprocessed : Supported(f)}
       IN /\ files' = found
          /\ cpc' = IF found = {} THEN "done" ELSE "collect"
          /\ tstate' = [f \in DocUniverse |-> IF f \in found THEN "queued" ELSE "none"]
    /\ UNCHANGED <<max_workers, unprocessed, processed, rawForm, chunkForm,
                   failedAt, consumed, success_count, summary>>

\* a pool thread takes a queued task
StartTask(f) ==
    /\ UNCHANGED notDocVars
    /\ tstate[f] = "queued"
    /\ Cardinality(Running(tstate)) < max_workers
    /\ tstate' = [tstate EXCEPT ![f] = "started"]
    /\ UNCHANGED <<max_workers, cpc, files, unprocessed, processed, rawForm,
                   chunkForm, failedAt, consumed, success_count, summary>>

\* except Exception: print the error and return False; the handler's own
\* print may raise, and that exception escapes the worker
Fail(f, step) ==
    /\ \E out \in {"false", "raised"} : tstate' = [tstate EXCEPT ![f] = out]
    /\ failedAt' = [failedAt EXCEPT ![f] = step]

\* client.upload(file=file_path)
Upload(f) ==
    /\ UNCHANGED notDocVars
    /\ tstate[f] = "started"
    /\ \/ tstate' = [tstate EXCEPT ![f] = "uploaded"] /\ UNCHANGED failedAt
       \/ Fail(f, "upload")
    /\ UNCHANGED <<max_workers, cpc, files, unprocessed, processed, rawForm,
                   chunkForm, consumed, success_count, summary>>

\* client.parse.run(...)
Parse(f) ==
    /\ UNCHANGED notDocVars
    /\ tstate[f] = "uploaded"
    /\ \/ tstate' = [tstate EXCEPT ![f] = "parsed"] /\ UNCHANGED failedAt
       \/ Fail(f, "parse")
    /\ UNCHANGED <<max_workers, cpc, files, unprocessed, processed, rawForm,
                   chunkForm, consumed, success_count, summary>>

\* result.model_dump() and the write of <stem>.json
SaveRaw(f) ==
    /\ UNCHANGED notDocVars
    /\ tstate[f] = "parsed"
    /\ \/ /\ tstate' = [tstate EXCEPT ![f] = "raw_saved"]
          /\ rawForm' = [rawForm EXCEPT ![OutputKey(f)] = f]
          /\ UNCHANGED failedAt
       \/ Fail(f, "save_raw") /\ UNCHANGED rawForm
    /\ UNCHANGED <<max_workers, cpc, files, unprocessed, processed,
                   chunkForm, consumed, success_count, summary>>

\* create_chunk_form(...) and the write of c-<stem>.json
SaveChunk(f) ==
    /\ UNCHANGED notDocVars
    /\ tstate[f] = "raw_saved"
    /\ \/ /\ tstate' = [tstate EXCEPT ![f] = "chunk_saved"]
          /\ chunkForm' = [chunkForm EXCEPT ![OutputKey(f)] = f]
          /\ UNCHANGED failedAt
       \/ Fail(f, "save_chunk") /\ UNCHANGED chunkForm
    /\ UNCHANGED <<max_workers, cpc, files, unprocessed, processed,
                   rawForm, consumed, success_count, summary>>

\* the position of shutil.move in process_single_document: after the write
\* of the chunk form
ReadyToMoveEarly(ts) == ts = "parsed"

ReadyToMove(ts) == ts = "chunk_saved"

\* shutil.move(file_path, processed_path)
Move(f) ==
    /\ UNCHANGED notDocVars
    /\ ReadyToMove(tstate[f])
    /\ \/ /\ tstate' = [tstate EXCEPT ![f] = "moved"]
          /\ unprocessed' = unprocessed \ {f}
          /\ processed' = processed \cup {f}
          /\ UNCHANGED failedAt
       \/ Fail(f, "move") /\ UNCHANGED <<unprocessed, processed>>
    /\ UNCHANGED <<max_workers, cpc, files, rawForm, chunkForm, consumed,
                   success_count, summary>>

\* the summary line (raw_result["usage"]["num_pages"]) and return True
Summarize(f) ==
    /\ UNCHANGED notDocVars
    /\ tstate[f] = "moved"
    /\ \/ tstate' = [tstate EXCEPT ![f] = "true"] /\ UNCHANGED failedAt
       \/ Fail(f, "summary")
    /\ UNCHANGED <<max_workers, cpc, files, unprocessed, processed, rawForm,
                   chunkForm, consumed, success_count, summary>>

\* for future in as_completed(...): one completed future is consumed
Collect(f) ==
    /\ UNCHANGED notDocVars
    /\ cpc = "collect"
    /\ f \in files \ consumed
    /\ tstate[f] \in Terminal
    /\ consumed' = consumed \cup {f}
    /\ success_count' = CountResult(success_count, tstate[f])
    /\ UNCHANGED <<max_workers, cpc, files, unprocessed, processed, rawForm,
                   chunkForm, tstate, failedAt, summary>>

\* every future has been consumed: the final tally
PrintSummary ==
    /\ UNCHANGED notDocVars
    /\ cpc = "collect"
    /\ consumed = files
    /\ summary' = [succeeded |-> success_count,
                   failed |-> Cardinality(files) - success_count]
    /\ cpc' = "done"
    /\ UNCHANGED <<max_workers, files, unprocessed, processed, rawForm,
                   chunkForm, tstate, failedAt, consumed, success_count>>

DocNext ==
    \/ Discover
    \/ \E f \in DocUniverse : StartTask(f)
    \/ \E f \in DocUniverse : Upload(f)
    \/ \E f \in DocUniverse : Parse(f)
    \/ \E f \in DocUniverse : SaveRaw(f)
    \/ \E f \in DocUniverse : SaveChunk(f)
    \/ \E f \in DocUniverse : Move(f)
    \/ \E f \in DocUniverse : Summarize(f)
    \/ \E f \in DocUniverse : Collect(f)
    \/ PrintSummary

\* ------------------------------------------------------------------------
\* Tabular converter: main / process_file / convert_csv_to_db / convert_xlsx_to_db
\* ------------------------------------------------------------------------
ConvUniverse == { File("a", ".csv"), File("a", ".xlsx"), File("b", ".xls") }
ConvStems == {f.stem : f \in ConvUniverse}

\* A DataFrame: its columns and its rows, in order
Frame(cols, rows) == [cols |-> cols, rows |-> rows]
F1 == Frame(<<"x">>, <<"r1">>)
F2 == Frame(<<"x", "y">>, <<"r2", "r3">>)

Sheet(name, frame) == [name |-> name, frame |-> frame]
CsvContent(frame) == [kind |-> "csv", frame |-> frame]
XlsxContent(sheets) == [kind |-> "xlsx", sheets |-> sheets]
Corrupt == [kind |-> "corrupt"]

CsvContents == {CsvContent(F1), CsvContent(F2), Corrupt}
XlsxContents == { XlsxContent(<<Sheet("Sheet1", F1)>>),
                  XlsxContent(<<Sheet("data", F2)>>),
                  XlsxContent(<<Sheet("Sheet1", F2), Sheet("data", F1)>>),
                  Corrupt }
XlsContents == {XlsxContent(<<Sheet("Sheet1", F1)>>), Corrupt}
ContentsFor(f) ==
    IF f.ext = ".csv" THEN CsvContents
    ELSE IF f.ext = ".xlsx" THEN XlsxContents ELSE XlsContents
AllContents == CsvContents \cup XlsxContents \cup XlsContents

NoConv == [file |-> NoFile, content |-> Corrupt]

\* ensure_directories(): mkdir(parents=True, exist_ok=True) of data/processed
\* and of databases
EnsureDirectoriesNoDb(d) ==
    [d EXCEPT !.data = TRUE, !.processed = TRUE]

EnsureDirectories(d) ==
    [d EXCEPT !.data = TRUE, !.processed = TRUE, !.databases = TRUE]

\* DataFrame.to_sql(name, conn, if_exists="replace", index=False)
ToSqlAppend(tables, name, df) ==
    [n \in DOMAIN tables \cup {name} |->
        IF n # name THEN tables[n]
        ELSE IF n \in DOMAIN tables
             THEN Frame(tables[n].cols, tables[n].rows \o df.rows)
             ELSE df]

ToSql(tables, name, df) ==
    [n \in DOMAIN tables \cup {name} |-> IF n = name THEN df ELSE tables[n]]

\* convert_csv_to_db: the database at db_path after the conversion
ConvertCsv(tables, frame) == ToSql(tables, "data", frame)

\* convert_xlsx_to_db: one to_sql per sheet, in sheet_names order
RECURSIVE ConvertXlsx(_, _)
ConvertXlsx(tables, sheets) ==
    IF sheets = <<>> THEN tables
    ELSE ConvertXlsx(ToSql(tables, Head(sheets).name, Head(sheets).frame),
                     Tail(sheets))

\* process_file's dispatch on file_path.suffix.lower()
Dispatch(ext) ==
    IF ext = ".csv" THEN "csv"
    ELSE IF ext \in {".xlsx", ".xls"} THEN "xlsx" ELSE "unsupported"

\* sqlite3.connect(db_path) on the existing database, or on a new empty one
Existing(d, stem) == IF stem \in DOMAIN d THEN d[stem] ELSE <<>>

\* the tables a conversion of this content writes
WrittenTables(content) ==
    IF content.kind = "csv" THEN {"data"}
    ELSE {content.sheets[i].name : i \in 1..Len(content.sheets)}

\* the frame of this content that table n is written from
SourceFrame(content, n) ==
    IF content.kind = "csv" THEN content.frame
    ELSE LET i == CHOOSE k \in 1..Len(content.sheets) : content.sheets[k].name = n
         IN content.sheets[i].frame

\* list(glob("*.csv")) + list(glob("*.xlsx")) + list(glob("*.xls")): each
\* glob in directory-listing order
Orderings(S) ==
    {o \in [1..Cardinality(S) -> S] : \A i, j \in 1..Cardinality(S) : o[i] = o[j] => i = j}
Glob(present, ext) == {f \in present : f.ext = ext}

\* main's loop: the index of the file attempted after this one
NextIndexAbort(idx, res, n) == IF res = "raised" THEN n + 1 ELSE idx + 1

NextIndex(idx, res, n) == idx + 1

DirStates ==
    {d \in [data : BOOLEAN, unprocessed : BOOLEAN, processed : BOOLEAN,
            databases : BOOLEAN] :
        (d.unprocessed \/ d.processed) => d.data}

IntakeStates ==
    UNION { {g \in [S -> AllContents] : \A f \in S : g[f] \in ContentsFor(f)} :
            S \in SUBSET ConvUniverse }

ConvInit ==
    /\ cvpc = "start"
    /\ dirs \in DirStates
    /\ intake \in IF dirs.unprocessed THEN IntakeStates ELSE {<<>>}
    /\ archive = <<>>
    /\ dbs \in IF dirs.databases
               THEN {<<>>, [a |-> [data |-> F1]], [a |-> [Sheet1 |-> F1]]}
               ELSE {<<>>}
    /\ cfiles = <<>>
    /\ cidx = 1
    /\ successful = 0
    /\ failed = 0
    /\ fileOutcome = [f \in ConvUniverse |-> "none"]
    /\ attempts = [f \in ConvUniverse |-> 0]
    /\ lastConv = NoConv
    /\ converted = {}
    /\ runs = 1

ConvParked ==
    /\ cvpc = "parked"
    /\ dirs = [data |-> FALSE, unprocessed |-> FALSE, processed |-> FALSE,
               databases |-> FALSE]
    /\ intake = <<>>
    /\ archive = <<>>
    /\ dbs = <<>>
    /\ cfiles = <<>>
    /\ cidx = 1
    /\ successful = 0
    /\ failed = 0
    /\ fileOutcome = [f \in ConvUniverse |-> "none"]
    /\ attempts = [f \in ConvUniverse |-> 0]
    /\ lastConv = NoConv
    /\ converted = {}
    /\ runs = 1

\* main: ensure_directories()
EnsureStep ==
    /\ UNCHANGED notConvVars
    /\ cvpc = "start"
    /\ dirs' = EnsureDirectories(dirs)
    /\ cvpc' = "check"
    /\ UNCHANGED <<intake, archive, dbs, cfiles, cidx, successful, failed,
                   fileOutcome, attempts, lastConv, converted, runs>>

\* main: if not UNPROCESSED_DIR.exists(): return
CheckIntake ==
    /\ UNCHANGED notConvVars
    /\ cvpc = "check"
    /\ cvpc' = IF dirs.unprocessed THEN "discover" ELSE "done"
    /\ UNCHANGED <<dirs, intake, archive, dbs, cfiles, cidx, successful, failed,
                   fileOutcome, attempts, lastConv, converted, runs>>

\* main: the three globs; return when nothing was found
DiscoverFiles ==
    /\ UNCHANGED notConvVars
    /\ cvpc = "discover"
    /\ \E a \in Orderings(Glob(DOMAIN intake, ".csv")),
          b \in Orderings(Glob(DOMAIN intake, ".xlsx")),
          c \in Orderings(Glob(DOMAIN intake, ".xls")) :
          cfiles' = a \o b \o c
    /\ cvpc' = IF cfiles' = <<>> THEN "done" ELSE "loop"
    /\ UNCHANGED <<dirs, intake, archive, dbs, cidx, successful, failed,
                   fileOutcome, attempts, lastConv, converted, runs>>

\* main's loop body: process_file(file_path) raised (reading the file, or
\* moving it after the conversion); the exception is caught and counted
ProcessFileRaises ==
    /\ UNCHANGED notConvVars
    /\ cvpc = "loop"
    /\ cidx <= Len(cfiles)
    /\ LET f == cfiles[cidx]
           content == intake[f]
       IN /\ \/ /\ content = Corrupt
                /\ UNCHANGED <<dbs, lastConv, converted>>
             \/ /\ content # Corrupt
                /\ Dispatch(f.ext) # "unsupported"
                /\ dbs' = [k \in DOMAIN dbs \cup {f.stem} |->
                             IF k # f.stem THEN dbs[k]
                             ELSE IF Dispatch(f.ext) = "csv"
                                  THEN ConvertCsv(Existing(dbs, k), content.frame)
                                  ELSE ConvertXlsx(Existing(dbs, k), content.sheets)]
                /\ lastConv' = [file |-> f, content |-> content]
                /\ converted' = converted \cup {[file |-> f, content |-> content]}
          /\ fileOutcome' = [fileOutcome EXCEPT ![f] = "raised"]
          /\ attempts' = [attempts EXCEPT ![f] = @ + 1]
          /\ failed' = failed + 1
          /\ cidx' = NextIndex(cidx, "raised", Len(cfiles))
    /\ UNCHANGED <<cvpc, dirs, intake, archive, cfiles, successful, runs>>

\* main's loop body: process_file(file_path) returned: the file was
\* converted into <stem>.db and moved to data/processed
ProcessFileOk ==
    /\ UNCHANGED notConvVars
    /\ cvpc = "loop"
    /\ cidx <= Len(cfiles)
    /\ LET f == cfiles[cidx]
           content == intake[f]
       IN /\ content # Corrupt
          /\ Dispatch(f.ext) # "unsupported"
          /\ dbs' = [k \in DOMAIN dbs \cup {f.stem} |->
                       IF k # f.stem THEN dbs[k]
                       ELSE IF Dispatch(f.ext) = "csv"
                            THEN ConvertCsv(Existing(dbs, k), content.frame)
                            ELSE ConvertXlsx(Existing(dbs, k), content.sheets)]
          /\ intake' = [g \in DOMAIN intake \ {f} |-> intake[g]]
          /\ archive' = [g \in DOMAIN archive \cup {f} |->
                           IF g = f THEN content ELSE archive[g]]
          /\ lastConv' = [file |-> f, content |-> content]
          /\ converted' = converted \cup {[file |-> f, content |-> content]}
          /\ fileOutcome' = [fileOutcome EXCEPT ![f] = "ok"]
          /\ attempts' = [attempts EXCEPT ![f] = @ + 1]
          /\ successful' = successful + 1
          /\ cidx' = NextIndex(cidx, "ok", Len(cfiles))
    /\ UNCHANGED <<cvpc, dirs, cfiles, failed, runs>>

\* main: the loop is over, the summary is printed
ConvSummary ==
    /\ UNCHANGED notConvVars
    /\ cvpc = "loop"
    /\ cidx > Len(cfiles)
    /\ cvpc' = "done"
    /\ UNCHANGED <<dirs, intake, archive, dbs, cfiles, cidx, successful, failed,
                   fileOutcome, attempts, lastConv, converted, runs>>

\* between runs a file is dropped into the intake directory (created by hand
\* when absent) and main is run again
DropFileAndRerun ==
    /\ UNCHANGED notConvVars
    /\ cvpc = "done"
    /\ runs < MaxRuns
    /\ \E f \in ConvUniverse \ DOMAIN intake, c \in AllContents :
          /\ c \in ContentsFor(f)
          /\ intake' = [g \in DOMAIN intake \cup {f} |-> IF g = f THEN c ELSE intake[g]]
    /\ dirs' = [dirs EXCEPT !.data = TRUE, !.unprocessed = TRUE]
    /\ runs' = runs + 1
    /\ cvpc' = "start"
    /\ cfiles' = <<>>
    /\ cidx' = 1
    /\ successful' = 0
    /\ failed' = 0
    /\ fileOutcome' = [g \in ConvUniverse |-> "none"]
    /\ attempts' = [g \in ConvUniverse |-> 0]
    /\ lastConv' = NoConv
    /\ UNCHANGED <<archive, dbs, converted>>

ConvNext ==
    \/ EnsureStep
    \/ CheckIntake
    \/ DiscoverFiles
    \/ ProcessFileRaises
    \/ ProcessFileOk
    \/ ConvSummary
    \/ DropFileAndRerun

\* ------------------------------------------------------------------------
\* Chunk form (process-doc.py) and uploader (doc-to-lance.py)
\* ------------------------------------------------------------------------
\* An optional integer: Python None is NoPage, the integer p is Page(p)
NoPage == <<>>
Page(p) == <<p>>

Letters == {"A", "Z"}
DigitChars == <<"0", "1", "2", "3", "4", "5", "6", "7", "8", "9">>

\* generate_document_id(): three letters, each drawn independently
DocIds == [1..3 -> Letters]

\* the decimal digits of n, most significant first
RECURSIVE Decimal(_)
Decimal(n) ==
    IF n < 10 THEN <<DigitChars[n + 1]>>
    ELSE Append(Decimal(n \div 10), DigitChars[(n % 10) + 1])

\* f"{idx:03d}": zero padding up to a minimum width of 3
Format03d(n) ==
    LET d == Decimal(n)
    IN IF Len(d) >= 3 THEN d
       ELSE [i \in 1..(3 - Len(d)) |-> "0"] \o d

\* blocks of a raw result: with bbox.original_page, with a bbox that has no
\* original_page, and without bbox
Block(p) == [type |-> "Text", bbox |-> [page |-> p, original_page |-> p]]
BlockNoOriginal == [type |-> "Text", bbox |-> [page |-> 1]]
BlockNoBbox == [type |-> "Text"]

\* the chunk shapes raw results are built from
ChunkShapes ==
    { [content |-> "no blocks key"],
      [content |-> "no blocks", blocks |-> <<>>],
      [content |-> "no pages", blocks |-> <<BlockNoBbox, BlockNoOriginal>>],
      [content |-> "pages 4 3 5", blocks |-> <<Block(4), BlockNoBbox, Block(3), Block(5)>>],
      [content |-> "page 7", blocks |-> <<BlockNoOriginal, Block(7)>>] }

RawOf(chunkSeq) == [result |-> [chunks |-> chunkSeq], usage |-> [num_pages |-> 9]]

\* raw results: every sequence of up to MaxChunks shapes, and long documents
\* of 12, 999 and 1000 one-page chunks
RawResults ==
    {RawOf(cs) : cs \in UNION {[1..n -> ChunkShapes] : n \in 0..MaxChunks}}
    \cup {RawOf([i \in 1..n |-> [content |-> "page", blocks |-> <<Block(1)>>]]) :
            n \in {12, 999, 1000}}

\* chunk_data.get("blocks", [])
GetBlocks(chunk_data) ==
    IF "blocks" \in DOMAIN chunk_data THEN chunk_data.blocks ELSE <<>>

\* the pages list built by the inner loop of create_chunk_form
RECURSIVE CollectPages(_)
CollectPages(blocks) ==
    IF blocks = <<>> THEN <<>>
    ELSE LET b == Head(blocks)
             rest == CollectPages(Tail(blocks))
         IN IF "bbox" \in DOMAIN b /\ "original_page" \in DOMAIN b.bbox
            THEN <<b.bbox.original_page>> \o rest
            ELSE rest

\* min(pages) if pages else None
FirstPage(pages) ==
    IF pages = <<>> THEN NoPage ELSE Page(pages[1])

MinPage(pages) ==
    IF pages = <<>> THEN NoPage
    ELSE Page(CHOOSE p \in {pages[i] : i \in 1..Len(pages)} :
                 \A i \in 1..Len(pages) : p <= pages[i])

\* max(pages) if pages else None
MaxPage(pages) ==
    IF pages = <<>> THEN NoPage
    ELSE Page(CHOOSE p \in {pages[i] : i \in 1..Len(pages)} :
                 \A i \in 1..Len(pages) : p >= pages[i])

\* create_chunk_form(raw_result, file_name), with the doc_id it generated
CreateChunkForm(raw_result, file_name, doc_id) ==
    LET cs == raw_result.result.chunks
    IN [idx \in 1..Len(cs) |->
          LET pages == CollectPages(GetBlocks(cs[idx]))
          IN [chunk_id |-> doc_id \o Format03d(idx),
              text |-> cs[idx].content,
              file_name |-> file_name,
              start_page |-> MinPage(pages),
              end_page |-> MaxPage(pages)]]

\* class DocumentChunk(LanceModel): start_page: int, end_page: int are
\* required, non-nullable integers
SchemaAccepts(rec) ==
    /\ Len(rec.start_page) = 1
    /\ Len(rec.end_page) = 1

\* load_chunks_from_json_files(): [] when the directory is absent or holds no
\* JSON file, else the concatenation of the files' lists
RECURSIVE Concat(_)
Concat(lists) ==
    IF lists = <<>> THEN <<>> ELSE Head(lists) \o Concat(Tail(lists))
LoadChunks(dirExists, jfiles) ==
    IF ~dirExists THEN <<>>
    ELSE IF jfiles = <<>> THEN <<>>
    ELSE Concat(jfiles)

\* upload_chunks_to_lancedb: if not chunks: return
NoChunksNever(chunkList) == FALSE

NoChunks(chunkList) == chunkList = <<>>

\* db.create_table("documents", schema=DocumentChunk, mode="overwrite")
CreateTableExistOk(tbl) ==
    [exists |-> TRUE, rows |-> tbl.rows, index_ready |-> FALSE]

CreateTable(tbl) ==
    [exists |-> TRUE, rows |-> <<>>, index_ready |-> FALSE]

NotRun == <<[chunk_id |-> <<>>, text |-> "not run", file_name |-> "",
             start_page |-> NoPage, end_page |-> NoPage]>>
OldRow == [chunk_id |-> <<"O", "L", "D", "0", "0", "1">>, text |-> "old",
           file_name |-> "old.pdf", start_page |-> Page(1), end_page |-> Page(2)]
NoTable == [exists |-> FALSE, rows |-> <<>>, index_ready |-> FALSE]
OldTable == [exists |-> TRUE, rows |-> <<OldRow>>, index_ready |-> TRUE]

UploadOrder == <<"create_table", "add", "search", "create_fts_index",
                 "wait_for_index", "summary">>

UpInit ==
    /\ raw \in RawResults
    /\ created = NotRun
    /\ chunkDirExists \in BOOLEAN
    /\ jsonFiles = <<>>
    /\ upc = "idle"
    /\ loaded = <<>>
    /\ table \in {NoTable, OldTable}
    /\ table0 = table
    /\ oplog = <<>>
    /\ upError = "none"

UpParked ==
    /\ raw = RawOf(<<>>)
    /\ created = NotRun
    /\ chunkDirExists = FALSE
    /\ jsonFiles = <<>>
    /\ upc = "parked"
    /\ loaded = <<>>
    /\ table = NoTable
    /\ table0 = NoTable
    /\ oplog = <<>>
    /\ upError = "none"

\* process_single_document: create_chunk_form and the write of c-<stem>.json
\* (the directory was created by setup_directories)
CreateChunkFormStep ==
    /\ UNCHANGED notUpVars
    /\ upc = "idle"
    /\ created = NotRun
    /\ \E doc_id \in DocIds :
          created' = CreateChunkForm(raw, "report.pdf", doc_id)
    /\ chunkDirExists' = TRUE
    /\ jsonFiles' = Append(jsonFiles, created')
    /\ UNCHANGED <<raw, upc, loaded, table, table0, oplog, upError>>

\* upload_chunks_to_lancedb: load_chunks_from_json_files() and the early return
LoadStep ==
    /\ UNCHANGED notUpVars
    /\ upc = "idle"
    /\ loaded' = LoadChunks(chunkDirExists, jsonFiles)
    /\ IF NoChunks(loaded')
       THEN upc' = "done_empty" /\ oplog' = Append(oplog, "no_chunks")
       ELSE upc' = "create" /\ oplog' = oplog
    /\ UNCHANGED <<raw, created, chunkDirExists, jsonFiles, table, table0, upError>>

\* a call of the store raised: the exception leaves upload_chunks_to_lancedb
StoreRaises(why) ==
    /\ upc' = "raised"
    /\ upError' = why

\* db.create_table(..., mode="overwrite")
CreateTableStep ==
    /\ UNCHANGED notUpVars
    /\ upc = "create"
    /\ \/ /\ table' = CreateTable(table)
          /\ oplog' = Append(oplog, "create_table")
          /\ upc' = "add"
          /\ UNCHANGED upError
       \/ StoreRaises("store") /\ UNCHANGED <<table, oplog>>
    /\ UNCHANGED <<raw, created, chunkDirExists, jsonFiles, loaded, table0>>

\* table.add(chunks): rejected as a whole when a record does not fit the schema
AddStep ==
    /\ UNCHANGED notUpVars
    /\ upc = "add"
    /\ oplog' = Append(oplog, "add")
    /\ IF \A i \in 1..Len(loaded) : SchemaAccepts(loaded[i])
       THEN \/ /\ table' = [table EXCEPT !.rows = @ \o loaded]
               /\ upc' = "verify"
               /\ UNCHANGED upError
            \/ StoreRaises("store") /\ UNCHANGED table
       ELSE StoreRaises("schema") /\ UNCHANGED table
    /\ UNCHANGED <<raw, created, chunkDirExists, jsonFiles, loaded, table0>>

\* table.search().limit(5).to_pandas() and the print of the sample
VerifyStep ==
    /\ UNCHANGED notUpVars
    /\ upc = "verify"
    /\ oplog' = Append(oplog, "search")
    /\ \/ upc' = "index" /\ UNCHANGED upError
       \/ StoreRaises("store")
    /\ UNCHANGED <<raw, created, chunkDirExists, jsonFiles, loaded, table, table0>>

\* table.create_fts_index("text", replace=True)
CreateIndexStep ==
    /\ UNCHANGED notUpVars
    /\ upc = "index"
    /\ oplog' = Append(oplog, "create_fts_index")
    /\ \/ upc' = "wait" /\ UNCHANGED upError
       \/ StoreRaises("store")
    /\ UNCHANGED <<raw, created, chunkDirExists, jsonFiles, loaded, table, table0>>

\* table.wait_for_index(["text_idx"]): returns once the index is ready, raises
\* on a timeout
WaitIndexStep ==
    /\ UNCHANGED notUpVars
    /\ upc = "wait"
    /\ oplog' = Append(oplog, "wait_for_index")
    /\ \/ /\ table' = [table EXCEPT !.index_ready = TRUE]
          /\ upc' = "summary"
          /\ UNCHANGED upError
       \/ StoreRaises("store") /\ UNCHANGED table
    /\ UNCHANGED <<raw, created, chunkDirExists, jsonFiles, loaded, table0>>

\* the final summary
UploadSummary ==
    /\ UNCHANGED notUpVars
    /\ upc = "summary"
    /\ oplog' = Append(oplog, "summary")
    /\ upc' = "done"
    /\ UNCHANGED <<raw, created, chunkDirExists, jsonFiles, loaded, table, table0,
                   upError>>

UpNext ==
    \/ CreateChunkFormStep
    \/ LoadStep
    \/ CreateTableStep
    \/ AddStep
    \/ VerifyStep
    \/ CreateIndexStep
    \/ WaitIndexStep
    \/ UploadSummary

\* ------------------------------------------------------------------------
\* Specifications
\* ------------------------------------------------------------------------
InitAgent == AgentInit /\ SqlParked /\ DocParked /\ ConvParked /\ UpParked
SpecAgent == InitAgent /\ [][AgentNext]_vars

InitSql == SqlInit /\ AgentParked /\ DocParked /\ ConvParked /\ UpParked
SpecSql == InitSql /\ [][SqlNext]_vars

InitDoc == DocInit /\ AgentParked /\ SqlParked /\ ConvParked /\ UpParked
SpecDoc == InitDoc /\ [][DocNext]_vars

InitConv == ConvInit /\ AgentParked /\ SqlParked /\ DocParked /\ UpParked
SpecConv == InitConv /\ [][ConvNext]_vars

InitUpload == UpInit /\ AgentParked /\ SqlParked /\ DocParked /\ ConvParked
SpecUpload == InitUpload /\ [][UpNext]_vars

\* ------------------------------------------------------------------------
\* Search agent: properties
\* ------------------------------------------------------------------------

\* C1: every query whose run ended with an AI message carrying no pending
\* tool call has response = that message's content and success = TRUE, and
\* success is TRUE exactly when a final response was captured.
C1_FinalResponseCaptured ==
    \A i \in 1..Len(results) :
        /\ (lastAI[i].type = "ai" /\ Len(lastAI[i].tool_calls) = 0)
              => /\ results[i].response = lastAI[i].content
                 /\ results[i].success = TRUE
        /\ results[i].success <=> (results[i].response # None)

\* C2: process_single_query returns the response text of its query, and the
\* fallback "No response generated" when no final response was produced;
\* it never returns None.
C2_SingleQueryNeverNone ==
    (apc = "returned" /\ single) =>
        /\ ret # None
        /\ results[1].response # None => ret = results[1].response
        /\ results[1].response = None => ret = NO_RESPONSE

\* C6: a run of the control loop is start -> chatbot -> (tools -> chatbot)*
\* -> end: it begins in chatbot, chatbot is followed by tools exactly when
\* the LLM output it produced requests at least one tool call and by end
\* exactly when it requests none, and tools is followed by chatbot; a query
\* needing no tool ends after one chatbot step.
C6_ControlLoopShape ==
    node # "start" =>
        LET full == Append(trace, [node |-> node, calls |-> 0])
        IN /\ full[1].node = "chatbot"
           /\ \A i \in 1..(Len(full) - 1) :
                 /\ full[i].node \in {"chatbot", "tools"}
                 /\ full[i].node = "chatbot" =>
                       full[i + 1].node = IF full[i].calls > 0 THEN "tools" ELSE "end"
                 /\ full[i].node = "tools" => full[i + 1].node = "chatbot"
           /\ (Len(trace) >= 1 /\ trace[1].calls = 0) => (Len(trace) = 1 /\ node = "end")

\* C6 witness: a run that searched once and then answered directly
C6_SearchThenAnswer ==
    /\ node = "end"
    /\ Len(trace) = 3
    /\ trace[1] = [node |-> "chatbot", calls |-> 1]
    /\ trace[2].node = "tools"
    /\ trace[3] = [node |-> "chatbot", calls |-> 0]

\* ------------------------------------------------------------------------
\* sql_query: properties
\* ------------------------------------------------------------------------

\* the statement's text, after leading whitespace, spells SELECT in any case
BeginsWithSelect(str) ==
    \E k \in 0..Len(str) :
        /\ \A i \in 1..k : str[i] \in Whitespace
        /\ Len(str) >= k + 6
        /\ \A j \in 1..6 : UpperChar(str[k + j]) = SELECT[j]

\* C3: a statement reaches the database driver if and only if its text,
\* trimmed and upper-cased, begins with SELECT; every other statement returns
\* the fixed refusal message and no connection is opened.
C3_OnlySelectReachesDriver ==
    sqlpc = "returned" =>
        /\ (driver # <<>>) <=> BeginsWithSelect(sql)
        /\ ~BeginsWithSelect(sql) =>
              sqlret = [kind |-> "refusal", text |-> REFUSAL]
        /\ BeginsWithSelect(sql) => (driver[1] = "connect" /\ sqlret.kind # "refusal")

\* C3 witness: a lowercase, whitespace-padded select was executed
C3_PaddedLowercaseAccepted ==
    /\ sqlpc = "returned"
    /\ sql = <<" ", "s", "e", "l", "e", "c", "t", " ", "1", "\n">>
    /\ driver = <<"connect", "execute">>

\* ------------------------------------------------------------------------
\* Document pipeline: properties
\* ------------------------------------------------------------------------

\* C4: whenever process_single_document returns False for a document, at
\* whichever step the exception occurred, the source file is still in the
\* unprocessed directory and has not been moved to the processed directory.
C4_FailedDocumentStaysInIntake ==
    \A f \in files :
        tstate[f] = "false" => (f \in unprocessed /\ f \notin processed)

\* C5: in a batch of N discovered documents the failure of one document
\* (a handled failure or an exception escaping the worker) stops no other
\* document; every document yields exactly one outcome, the tally counts the
\* successes, successes + failures = N, the successful documents are in
\* processed and a document that failed during upload is in intake.
C5_BatchIsolatesFailures ==
    /\ consumed \subseteq files
    /\ success_count = Cardinality({f \in consumed : tstate[f] = "true"})
    /\ \A f \in consumed : tstate[f] \in Terminal
    /\ (cpc = "done" /\ files # {}) =>
          /\ consumed = files
          /\ summary.succeeded = Cardinality({f \in files : tstate[f] = "true"})
          /\ summary.succeeded + summary.failed = Cardinality(files)
          /\ summary.failed = Cardinality({f \in files : tstate[f] \in {"false", "raised"}})
          /\ \A f \in files :
                /\ tstate[f] = "true" => (f \in processed /\ f \notin unprocessed)
                /\ failedAt[f] = "upload" => (f \in unprocessed /\ f \notin processed)

\* C5 witness: a finished batch of three documents, one failed during upload
\* and one raised out of its worker, the third succeeded
C5_MixedBatchFinished ==
    /\ cpc = "done"
    /\ Cardinality(files) = 3
    /\ \E f, g, h \in files :
          /\ tstate[f] = "false" /\ failedAt[f] = "upload"
          /\ tstate[g] = "raised"
          /\ tstate[h] = "true"

\* ------------------------------------------------------------------------
\* Tabular converter: properties
\* ------------------------------------------------------------------------

C8_AllThreeDirectoriesExist ==
    cvpc \in {"check", "discover", "loop", "done"} =>
        (dirs.unprocessed /\ dirs.processed /\ dirs.databases)

\* C8 amended: once main has ensured the directories, data/processed and
\* databases exist; data/unprocessed is not created: when it is absent main
\* returns without discovering or processing a file, so all three exist
\* whenever discovery or processing takes place.
C8_ArchiveAndDatabaseDirsExist ==
    /\ cvpc \in {"check", "discover", "loop", "done"} =>
          (dirs.data /\ dirs.processed /\ dirs.databases)
    /\ cvpc \in {"discover", "loop"} => dirs.unprocessed
    /\ (cvpc = "done" /\ ~dirs.unprocessed) =>
          (cfiles = <<>> /\ \A f \in ConvUniverse : attempts[f] = 0)

\* C8 witness: main returned having created data/processed and databases,
\* with data/unprocessed absent
C8_ReturnedWithoutIntake ==
    /\ cvpc = "done"
    /\ runs = 1
    /\ dirs = [data |-> TRUE, unprocessed |-> FALSE, processed |-> TRUE,
               databases |-> TRUE]

\* C9: after the converter processed <stem>.csv, the database <stem>.db
\* contains exactly one table, named data, holding that CSV, whatever the
\* prior state of the databases directory and whatever other files were
\* processed.
C9_CsvDatabaseHoldsOnlyData ==
    \A f \in ConvUniverse :
        (f.ext = ".csv" /\ fileOutcome[f] = "ok") =>
            /\ DOMAIN dbs[f.stem] = {"data"}
            /\ dbs[f.stem]["data"] = archive[f].frame

\* C10: a conversion into an existing database replaces: right after it,
\* every table it wrote (data for a CSV, one per sheet for a spreadsheet)
\* has exactly the rows and columns of this conversion's input.
C10_RerunReplacesTables ==
    lastConv # NoConv =>
        /\ lastConv.file.stem \in DOMAIN dbs
        /\ \A n \in WrittenTables(lastConv.content) :
              /\ n \in DOMAIN dbs[lastConv.file.stem]
              /\ dbs[lastConv.file.stem][n] = SourceFrame(lastConv.content, n)

\* C10 witness: a.csv was converted in an earlier run with one input and has
\* just been converted again with another
C10_ConvertedTwice ==
    /\ runs = 2
    /\ lastConv = [file |-> File("a", ".csv"), content |-> CsvContent(F2)]
    /\ [file |-> File("a", ".csv"), content |-> CsvContent(F1)] \in converted

\* ------------------------------------------------------------------------
\* Chunk form: C11, C12
\* ------------------------------------------------------------------------
IsDigit(c) == \E i \in 1..10 : DigitChars[i] = c
DigitValue(c) == (CHOOSE i \in 1..10 : DigitChars[i] = c) - 1
UppercaseLetters ==
    {"A", "B", "C", "D", "E", "F", "G", "H", "I", "J", "K", "L", "M", "N", "O",
     "P", "Q", "R", "S", "T", "U", "V", "W", "X", "Y", "Z"}

\* C11: for a raw result with N chunks create_chunk_form returns N records in
\* the raw result's order; every chunk_id is three uppercase letters followed
\* by exactly three digits, the prefix is the same in all records, the digits
\* of the i-th record spell i, and the chunk_ids are pairwise distinct.
C11_ChunkIdsThreeLettersThreeDigits ==
    created # NotRun =>
        LET cs == raw.result.chunks
        IN /\ Len(created) = Len(cs)
           /\ \A i \in 1..Len(created) :
                LET id == created[i].chunk_id
                IN /\ created[i].text = cs[i].content
                   /\ Len(id) = 6
                   /\ \A k \in 1..3 : id[k] \in UppercaseLetters
                   /\ \A k \in 1..3 : id[k] = created[1].chunk_id[k]
                   /\ \A k \in 4..6 : IsDigit(id[k])
                   /\ 100 * DigitValue(id[4]) + 10 * DigitValue(id[5])
                        + DigitValue(id[6]) = i
           /\ \A i, j \in 1..Len(created) :
                i # j => created[i].chunk_id # created[j].chunk_id

\* the original_page values of the blocks of a chunk that carry one
PagesOf(chunk_data) ==
    IF "blocks" \notin DOMAIN chunk_data THEN {}
    ELSE LET b == chunk_data.blocks
         IN {b[k].bbox.original_page :
               k \in {k \in 1..Len(b) : /\ "bbox" \in DOMAIN b[k]
                                        /\ "original_page" \in DOMAIN b[k].bbox}}

C13_NoChunksNoTableChange ==
    (upc \notin {"idle", "parked"} /\ LoadChunks(chunkDirExists, jsonFiles) = <<>>) =>
        /\ upc = "done_empty"
        /\ oplog = <<"no_chunks">>
        /\ table = table0

\* the uploader returned early over a directory holding only an empty array,
\* with a documents table of an earlier upload in the store
C13_OnlyEmptyArrayKeepsOldTable ==
    /\ upc = "done_empty"
    /\ chunkDirExists
    /\ jsonFiles = << <<>> >>
    /\ table0 = OldTable
    /\ table = OldTable

\* C14: with chunks to upload the store operations happen in the order
\* create/overwrite documents, bulk insert, read-back, build the full-text
\* index, wait for text_idx; the summary comes only after the index is ready,
\* and then the table holds exactly the chunks loaded by this run.
C14_UploadStepsInOrder ==
    /\ (upc \notin {"idle", "parked", "done_empty"}) =>
          /\ Len(oplog) <= Len(UploadOrder)
          /\ \A i \in 1..Len(oplog) : oplog[i] = UploadOrder[i]
    /\ (\E i \in 1..Len(oplog) : oplog[i] = "summary") => table.index_ready
    /\ upc = "done" =>
          /\ oplog = UploadOrder
          /\ table.exists
          /\ table.index_ready
          /\ loaded = LoadChunks(chunkDirExists, jsonFiles)
          /\ table.rows = loaded

\* an upload over an earlier documents table ran to its summary
C14_CompletedOverOldTable ==
    /\ upc = "done"
    /\ table0 = OldTable
    /\ Len(loaded) >= 1

\* C19: every record create_chunk_form writes, a record without pages
\* included, fits the uploader's schema, so that an upload which the store
\* itself does not fail never ends with the documents table overwritten but
\* without the loaded chunks.
C19_ChunkFormFitsUploadSchema ==
    (upc \in {"done", "raised"} /\ upError # "store") =>
        /\ \A i \in 1..Len(loaded) : SchemaAccepts(loaded[i])
        /\ table = table0 \/ table.rows = loaded

\* ------------------------------------------------------------------------
\* Agent tools: C15, C17
\* ------------------------------------------------------------------------
\* C15: neither tool raises to its caller: whatever the argument and whatever
\* fails inside (search failure, missing table, SQL error, any other
\* exception), hybrid_search and sql_query return a string; for a database
\* error sql_query's string carries the attempted query text.
C15_ToolsReturnStrings ==
    /\ sqlpc = "returned" =>
          /\ sqlret.kind \in {"refusal", "results", "no_results", "sql_error", "error"}
          /\ sqlFault = "sqlite3.Error" =>
                (sqlret.kind = "sql_error" /\ sqlret.query = sql)
          /\ sqlFault = "Exception" => sqlret.kind = "error"
    /\ hspc = "returned" =>
          /\ hsret.kind \in {"documents", "no_documents", "search_error"}
          /\ hsFault # "none" => hsret.kind = "search_error"

\* both tools returned after a failure: sql_query after an exception that is
\* not a database error, hybrid_search after a missing documents table
C15_BothToolsFailedInside ==
    /\ sqlpc = "returned"
    /\ sqlFault = "Exception"
    /\ hspc = "returned"
    /\ hsFault = "missing table"

\* C17: sql_query is read-only: whatever the statement and whether or not the
\* database file exists beforehand, the set of database files and the
\* contents of every table stay as they were before the call.
C17_SqlQueryLeavesDatabaseUnchanged ==
    /\ dbFileExists = dbFile0
    /\ dbTables = IF dbFile0 THEN InitialTables ELSE <<>>

\* ------------------------------------------------------------------------
\* Chatbot node: C16
\* ------------------------------------------------------------------------
\* C16: at every chatbot step the message list handed to the LLM begins with
\* the fixed system prompt, and the prompt is not repeated at its head,
\* whatever message list the caller supplied, a list that starts with a
\* different system message included.
C16_LlmInputBeginsWithSystemPrompt ==
    llm_input # <<>> =>
        /\ llm_input[1] = SystemMessage(SYSTEM_PROMPT)
        /\ Len(llm_input) >= 2 => llm_input[2] # SystemMessage(SYSTEM_PROMPT)

\* ------------------------------------------------------------------------
\* Document pipeline: C18, C20
\* ------------------------------------------------------------------------
WroteRaw(f) ==
    \/ tstate[f] \in {"raw_saved", "chunk_saved", "moved", "true"}
    \/ failedAt[f] \in {"save_chunk", "move", "summary"}
WroteChunk(f) ==
    \/ tstate[f] \in {"chunk_saved", "moved", "true"}
    \/ failedAt[f] \in {"move", "summary"}

\* C18: the tasks of a batch write disjoint files: a document that wrote its
\* raw result and its chunk form keeps them, no sibling task overwrites them,
\* two documents with the same stem and different extensions included.
C18_TasksWriteDisjointFiles ==
    \A f \in files :
        /\ WroteRaw(f) => rawForm[OutputKey(f)] = f
        /\ WroteChunk(f) => chunkForm[OutputKey(f)] = f

\* C20: the effects of process_single_document come in the order raw result
\* written, chunk form written, source moved: a document in processed has
\* both its files, True means all three effects happened, and a failure
\* between the steps leaves the earlier files and the source where they were.
C20_EffectsInFixedOrder ==
    \A f \in DocUniverse :
        /\ f \in processed =>
              /\ rawForm[OutputKey(f)] # NoFile
              /\ chunkForm[OutputKey(f)] # NoFile
        /\ tstate[f] = "true" =>
              /\ rawForm[OutputKey(f)] # NoFile
              /\ chunkForm[OutputKey(f)] # NoFile
              /\ f \in processed /\ f \notin unprocessed
        /\ WroteChunk(f) => WroteRaw(f)
        /\ WroteChunk(f) => chunkForm[OutputKey(f)] # NoFile
        /\ WroteRaw(f) => rawForm[OutputKey(f)] # NoFile
        /\ failedAt[f] \in {"upload", "parse", "save_raw", "save_chunk", "move"} =>
              (f \in unprocessed /\ f \notin processed)
        /\ failedAt[f] = "summary" => f \in processed

\* one document failed between the write of its raw result and the write of
\* its chunk form, another failed in the move, a third returned True
C20_FailuresBetweenSteps ==
    \E f, g, h \in files :
        /\ failedAt[f] = "save_chunk"
        /\ rawForm[OutputKey(f)] = f
        /\ chunkForm[OutputKey(f)] = NoFile
        /\ failedAt[g] = "move"
        /\ tstate[h] = "true"

====
